---- MODULE Spec2Model ----
(***************************************************************************)
(* A model of src/LeetCode/146_LRU_Cache.py: class Node and class LRUCache *)
(* (a dict from key to Node, plus a doubly linked list of Nodes between    *)
(* two dummy nodes head and tail).                                         *)
(*                                                                         *)
(* The heap is the function `nodes` from object identities to Node         *)
(* records; a Python reference is an identity, and None is the identity    *)
(* None, which is no object.  get and put are one action each: the code is *)
(* single threaded and each call runs to completion.                       *)
(***************************************************************************)
EXTENDS Integers, Sequences, FiniteSets, TLC

\* ---------------------------------------------------------------- bounds
MaxCapacity == 2     \* capacities 0..MaxCapacity are constructed
MaxKey == 2          \* keys 0..MaxKey are passed to get and put
MaxValue == 0        \* values -1..MaxValue are passed to put
MaxWideCapacity == 3 \* SpecWide: capacities 1..MaxWideCapacity, one value
MaxWideKey == 3      \* SpecWide: keys 0..MaxWideKey

\* The value get returns on a miss; put accepts it as a value like any int.
Miss == -1

Capacities == 0..MaxCapacity
Keys == 0..MaxKey
Values == Miss..MaxValue

\* ------------------------------------------------------------ the heap
\* Python's None: the identity that is no object.
None == 0
\* self.head and self.tail, the two dummy nodes made by __init__.
head == 1
tail == 2
\* Identities a Node can have.  A call starts with at most capacity + 2
\* live nodes and constructs at most one.
NodeIds == 1..((IF MaxWideCapacity > MaxCapacity THEN MaxWideCapacity ELSE MaxCapacity) + 3)

\* Node.__init__ with self.value = key for self.value = value.
Node_value_from_key(key, value) == [key |-> key, value |-> key, prev |-> None, next |-> None]

\* Node.__init__(key, value)
Node(key, value) == [key |-> key, value |-> value, prev |-> None, next |-> None]


VARIABLES
    capacity,   \* self.capacity
    cache,      \* self.cache: a function from the keys of the dict to node identities
    nodes,      \* the heap: a function from the live identities to Node records
    fault,      \* "none", or the exception that ended the program
    last,       \* the last call: its name, arguments, result and the branches it took
    touched,    \* history: the present keys, most recently touched first
    stored,     \* history: for each present key, the value of the last put on it
    run,        \* history: the keys put so far, while every call was a put of a new key
    alg         \* the program that runs: calls on a cache, the demo script, or a function

vars == <<capacity, cache, nodes, fault, last, touched, stored, run, alg>>

\* The part of the state the methods of LRUCache read and write, with the
\* count of the statements of _remove and _insert_to_head the call has run.
Self == [cache |-> cache, nodes |-> nodes, fault |-> "none", work |-> 0]

\* ------------------------------------------------------ dict operations
\* key in self.cache
Has(c, key) == key \in DOMAIN c
\* self.cache[key] = node
DictSet(c, key, node) == [k \in (DOMAIN c) \cup {key} |-> IF k = key THEN node ELSE c[k]]
\* del self.cache[key]
DictDel(c, key) == [k \in (DOMAIN c) \ {key} |-> c[k]]
\* len(self.cache)
Len_cache(c) == Cardinality(DOMAIN c)

\* --------------------------------------------------- LRUCache._remove
\* def _remove(self, node):
\*     node.prev.next = node.next
\*     node.next.prev = node.prev
\*     del self.cache[node.key]
\* An attribute of None cannot be set (AttributeError), and del of a key
\* that is not in the dict is a KeyError; the statements before the one
\* that raises have taken effect.
\* _remove without its last line: the node is unlinked and its key stays in the dict.
remove_keeps_key(s, node) ==
    IF s.fault # "none" THEN s
    ELSE
    LET n == s.nodes[node] IN
    IF n.prev = None THEN [s EXCEPT !.fault = "AttributeError"]
    ELSE
    LET s1 == [s EXCEPT !.nodes[n.prev].next = n.next] IN
    IF s1.nodes[node].next = None THEN [s1 EXCEPT !.fault = "AttributeError"]
    ELSE
    LET m == s1.nodes[node] IN
    [s1 EXCEPT !.nodes[m.next].prev = m.prev]

remove(s, node) ==
    IF s.fault # "none" THEN s
    ELSE
    LET n == s.nodes[node] IN
    IF n.prev = None THEN [s EXCEPT !.fault = "AttributeError"]
    ELSE
    LET s1 == [s EXCEPT !.nodes[n.prev].next = n.next, !.work = @ + 1] IN
    IF s1.nodes[node].next = None THEN [s1 EXCEPT !.fault = "AttributeError"]
    ELSE
    LET m == s1.nodes[node]
        s2 == [s1 EXCEPT !.nodes[m.next].prev = m.prev, !.work = @ + 1] IN
    IF ~Has(s2.cache, s2.nodes[node].key) THEN [s2 EXCEPT !.fault = "KeyError"]
    ELSE [s2 EXCEPT !.cache = DictDel(s2.cache, s2.nodes[node].key), !.work = @ + 1]

\* ---------------------------------------------- LRUCache._insert_to_head
\* def _insert_to_head(self, node):
\*     node.next = self.head.next
\*     node.prev = self.head
\*     self.head.next.prev = node
\*     self.head.next = node
\*     self.cache[node.key] = node
\* _insert_to_head with head and tail exchanged: the node is linked before self.tail.
insert_to_tail(s, node) ==
    IF s.fault # "none" THEN s
    ELSE
    LET s1 == [s EXCEPT !.nodes[node].prev = s.nodes[tail].prev]
        s2 == [s1 EXCEPT !.nodes[node].next = tail] IN
    IF s2.nodes[tail].prev = None THEN [s2 EXCEPT !.fault = "AttributeError"]
    ELSE
    LET s3 == [s2 EXCEPT !.nodes[s2.nodes[tail].prev].next = node]
        s4 == [s3 EXCEPT !.nodes[tail].prev = node] IN
    [s4 EXCEPT !.cache = DictSet(s4.cache, s4.nodes[node].key, node)]

\* _insert_to_head without line 43: the node that was first keeps its prev.
insert_without_backlink(s, node) ==
    IF s.fault # "none" THEN s
    ELSE
    LET s1 == [s EXCEPT !.nodes[node].next = s.nodes[head].next, !.work = @ + 1]
        s2 == [s1 EXCEPT !.nodes[node].prev = head, !.work = @ + 1]
        s4 == [s2 EXCEPT !.nodes[head].next = node, !.work = @ + 1] IN
    [s4 EXCEPT !.cache = DictSet(s4.cache, s4.nodes[node].key, node), !.work = @ + 1]

insert_to_head(s, node) ==
    IF s.fault # "none" THEN s
    ELSE
    LET s1 == [s EXCEPT !.nodes[node].next = s.nodes[head].next, !.work = @ + 1]
        s2 == [s1 EXCEPT !.nodes[node].prev = head, !.work = @ + 1] IN
    IF s2.nodes[head].next = None THEN [s2 EXCEPT !.fault = "AttributeError"]
    ELSE
    LET s3 == [s2 EXCEPT !.nodes[s2.nodes[head].next].prev = node, !.work = @ + 1]
        s4 == [s3 EXCEPT !.nodes[head].next = node, !.work = @ + 1] IN
    [s4 EXCEPT !.cache = DictSet(s4.cache, s4.nodes[node].key, node), !.work = @ + 1]

\* ------------------------------------------------------- the collector
\* The identities referenced by the fields of the nodes in S.
Refs(h, S) == { h[n].prev : n \in S } \cup { h[n].next : n \in S }

RECURSIVE Closure(_, _)
Closure(h, S) ==
    LET T == S \cup ((Refs(h, S) \ {None}) \cap DOMAIN h) IN
    IF T = S THEN S ELSE Closure(h, T)

\* The nodes a call leaves referenced: those reachable from self.head,
\* self.tail and the values of self.cache.  Python frees the others.
Live(s) == Closure(s.nodes, {head, tail} \cup { s.cache[k] : k \in DOMAIN s.cache })

\* The nodes met from n along next, up to self.tail, None or a node met before.
RECURSIVE Chain(_, _, _)
Chain(h, n, seen) ==
    IF n = tail \/ n = None \/ n \notin DOMAIN h \/ n \in seen THEN <<>>
    ELSE <<n>> \o Chain(h, h[n].next, seen \cup {n})

RECURSIVE Ascending(_)
Ascending(S) ==
    IF S = {} THEN <<>>
    ELSE LET m == CHOOSE x \in S : \A y \in S : x <= y IN <<m>> \o Ascending(S \ {m})

SeqSet(seq) == { seq[i] : i \in 1..Len(seq) }

\* Identities are observable only through equality, so the live nodes are
\* renamed after each call: head, tail, the nodes of the list in list
\* order, then any other live node.  Every reference is renamed with them.
Order(s) ==
    LET chain == Chain(s.nodes, s.nodes[head].next, {head}) IN
    <<head, tail>> \o chain \o Ascending(Live(s) \ ({head, tail} \cup SeqSet(chain)))

Renamed(order, n) ==
    IF n = None THEN None ELSE CHOOSE i \in 1..Len(order) : order[i] = n

Collect(s) ==
    LET order == Order(s) IN
    [s EXCEPT
        !.nodes = [i \in 1..Len(order) |->
                     [s.nodes[order[i]] EXCEPT !.prev = Renamed(order, @),
                                               !.next = Renamed(order, @)]],
        !.cache = [k \in DOMAIN s.cache |-> Renamed(order, s.cache[k])]]

\* A new object's identity: none that a node has while the call runs.
FreeIds == NodeIds \ DOMAIN nodes
NewId == CHOOSE n \in FreeIds : \A m \in FreeIds : n <= m

\* -------------------------------------------------------- LRUCache.get
\* def get(self, key):
\*     if key not in self.cache: return -1
\*     node = self.cache[key]
\*     self._remove(node)
\*     self._insert_to_head(node)
\*     return node.value
\* get without lines 26 and 27: a hit returns the value and moves nothing.
get_state_no_promotion(s, key) == s

\* get without lines 23 and 24: self.cache[key] raises KeyError on a missing key.
get_state_unguarded(s, key) ==
    IF ~Has(s.cache, key) THEN [s EXCEPT !.fault = "KeyError"]
    ELSE LET node == s.cache[key] IN insert_to_head(remove(s, node), node)

\* get without line 26: the node is linked after head and not unlinked first.
get_state_no_remove(s, key) ==
    IF ~Has(s.cache, key) THEN s
    ELSE insert_to_head(s, s.cache[key])

\* get with self.tail.prev for self.cache[key] in line 25: a hit moves the
\* last node of the list to the front.
get_state_promotes_last(s, key) ==
    IF ~Has(s.cache, key) THEN s
    ELSE LET node == s.nodes[tail].prev IN insert_to_head(remove(s, node), node)

\* get without line 27: the node is unlinked, its key deleted, and it is
\* not linked again.
get_state_no_insert(s, key) ==
    IF ~Has(s.cache, key) THEN s
    ELSE remove(s, s.cache[key])

get_state(s, key) ==
    IF ~Has(s.cache, key) THEN s
    ELSE LET node == s.cache[key] IN insert_to_head(remove(s, node), node)

\* get returning self.head.next.value for node.value, read before the promotion.
get_result_of_first(s, key) ==
    IF ~Has(s.cache, key) THEN Miss ELSE s.nodes[s.nodes[head].next].value

get_result(s, key) ==
    IF ~Has(s.cache, key) THEN Miss ELSE s.nodes[s.cache[key]].value

\* -------------------------------------------------------- LRUCache.put
\* def put(self, key, value):
\*     if key in self.cache: self._remove(self.cache[key])
\*     if len(self.cache) == self.capacity:
\*         lru = self.tail.prev
\*         self._remove(lru)
\*     new_node = Node(key, value)
\*     self._insert_to_head(new_node)
\* put without lines 31 and 32.
put_removed_never(s, key) == s

put_removed(s, key) ==
    IF Has(s.cache, key) THEN remove(s, s.cache[key]) ELSE s

\* The test of line 33 with > for ==.
put_full_late(s, cap) == s.fault = "none" /\ Len_cache(s.cache) > cap

\* The test of line 33 made for the size the insertion will give.
put_full_early(s, cap) == s.fault = "none" /\ Len_cache(s.cache) + 1 >= cap

\* The test of line 33, made on the dict as line 32 left it.
put_full(s, cap) == s.fault = "none" /\ Len_cache(s.cache) = cap

\* Line 34 with self.head.next for self.tail.prev.
put_evicted_first(s, cap) ==
    IF put_full(s, cap) THEN remove(s, s.nodes[head].next) ELSE s

\* Lines 34 and 35 with the last entry looked for from self.head along
\* next, one step counted for each node passed.
put_evicted_by_walk(s, cap) ==
    IF put_full(s, cap)
    THEN LET chain == Chain(s.nodes, s.nodes[head].next, {head})
             lru == IF chain = <<>> THEN head ELSE chain[Len(chain)] IN
         remove([s EXCEPT !.work = @ + Len(chain)], lru)
    ELSE s

\* Line 34 with self.tail for self.tail.prev.
put_evicted_tail(s, cap) ==
    IF put_full(s, cap) THEN remove(s, tail) ELSE s

put_evicted(s, cap) ==
    IF put_full(s, cap) THEN remove(s, s.nodes[tail].prev) ELSE s

\* put with lines 31, 32 and 37 rewritten to keep the node of a present
\* key: its value is assigned, and the node is unlinked and put first.
put_state_in_place(s, cap, key, value, id) ==
    IF Has(s.cache, key)
    THEN LET node == s.cache[key]
             s1 == remove([s EXCEPT !.nodes[node].value = value], node) IN
         IF s1.fault # "none" THEN s1 ELSE insert_to_head(s1, node)
    ELSE LET s2 == put_evicted(s, cap) IN
         IF s2.fault # "none" THEN s2
         ELSE insert_to_head([s2 EXCEPT !.nodes = (id :> Node(key, value)) @@ s2.nodes], id)

put_state(s, cap, key, value, id) ==
    LET s1 == put_removed(s, key)
        s2 == put_evicted(s1, cap) IN
    IF s2.fault # "none" THEN s2
    ELSE insert_to_head([s2 EXCEPT !.nodes = (id :> Node(key, value)) @@ s2.nodes], id)

\* The steps of a put with lines 37 and 38 moved before line 33, and the test of line
\* 33 made with > on the dict that holds the new key.
put_steps_insert_first(s, cap, key, value, id) ==
    LET s1 == put_removed(s, key)
        s2 == insert_to_head([s1 EXCEPT !.nodes = (id :> Node(key, value)) @@ s1.nodes], id)
        s3 == IF s2.fault = "none" /\ Len_cache(s2.cache) > cap
              THEN remove(s2, s2.nodes[tail].prev) ELSE s2 IN
    <<s, s1, s2, s3>>

\* The machine states a put passes through, at the points where the dict
\* can have changed: on entry, after lines 31 and 32, after lines 33 to 35,
\* and on return.  _remove and _insert_to_head each write the dict once, in
\* their last statement, so that these are all the dicts there are during
\* the call.
put_steps(s, cap, key, value, id) ==
    LET s1 == put_removed(s, key)
        s2 == put_evicted(s1, cap) IN
    <<s, s1, s2, put_state(s, cap, key, value, id)>>

\* The same for a get: on entry, after line 26, and on return.
get_steps(s, key) ==
    IF ~Has(s.cache, key) THEN <<s, s, s>>
    ELSE <<s, remove(s, s.cache[key]), get_state(s, key)>>

\* ------------------------------------------------------------- history
\* A touch of key: a get that hits, or a put.  The sequence keeps the keys
\* that are in the dict after the call, most recently touched first.
RECURSIVE Without(_, _)
Without(seq, S) ==
    IF seq = <<>> THEN <<>>
    ELSE IF Head(seq) \in S THEN Without(Tail(seq), S)
    ELSE <<Head(seq)>> \o Without(Tail(seq), S)

Touch(seq, key, present) ==
    LET t == <<key>> \o Without(seq, {key}) IN Without(t, SeqSet(t) \ present)

Kept(f, present) == [k \in (DOMAIN f) \cap present |-> f[k]]

\* What the call before a get that hits was, when it was a call on the same
\* key: a put that replaced the key's value by a different one, another
\* put, or a get.
Previous(key) ==
    IF last.key # key \/ ~Has(cache, key) THEN "other"
    ELSE IF last.op = "put" THEN (IF last.changed THEN "update" ELSE "put")
    ELSE IF last.op = "get" THEN "get"
    ELSE "other"

\* What a call that leaves the machine in s did to objects: the node the
\* dict maps key to is the one it mapped key to before the call; the number
\* of Node objects the call constructed; the node the dict mapped key to
\* before the call is referenced from nowhere after it.
SameEntry(s, key) == Has(cache, key) /\ Has(s.cache, key) /\ s.cache[key] = cache[key]
Made(s) == Cardinality(DOMAIN s.nodes \ DOMAIN nodes)
Gone(s, key) == Has(cache, key) /\ cache[key] \notin Live(s)

\* What the steps of a call showed: the largest number of keys the dict
\* held, and the keys of the dict and of the list next to last, that is,
\* before line 37 of a put and before line 27 of a get.
MaxOf(S) == CHOOSE x \in S : \A y \in S : y <= x
Peak(steps) == MaxOf({ Len_cache(steps[i].cache) : i \in 1..Len(steps) })
Mid(steps) ==
    LET m == steps[Len(steps) - 1] IN
    [keys |-> DOMAIN m.cache,
     list |-> LET chain == Chain(m.nodes, m.nodes[head].next, {head}) IN
              [i \in 1..Len(chain) |-> m.nodes[chain[i]].key]]

\* ------------------------------------------------------------ actions
\* LRUCache(capacity): no check of capacity is made.
New(cap) ==
    /\ capacity = cap
    /\ cache = <<>>
    /\ nodes = (head :> [Node(0, 0) EXCEPT !.next = tail]) @@
               (tail :> [Node(0, 0) EXCEPT !.prev = head])
    /\ fault = "none"
    /\ last = [op |-> "init", key |-> 0, value |-> 0, ret |-> 0,
               hit |-> FALSE, evict |-> FALSE, changed |-> FALSE, prev |-> "other",
               work |-> 0, kept |-> FALSE, made |-> 0, gone |-> FALSE,
               peak |-> 0, mid |-> [keys |-> {}, list |-> <<>>]]
    /\ touched = <<>>
    /\ stored = <<>>
    /\ run = [ok |-> TRUE, keys |-> <<>>]

\* A cache of any capacity, and any calls on it.
Init ==
    /\ \E cap \in Capacities : New(cap)
    /\ alg = [name |-> "calls"]

Finish(s) ==
    LET c == Collect(s) IN
    /\ cache' = c.cache
    /\ nodes' = c.nodes
    /\ fault' = c.fault

Get(key) ==
    /\ fault = "none"
    /\ LET s == get_state(Self, key)
           hit == Has(cache, key) IN
       /\ Finish(s)
       /\ last' = [op |-> "get", key |-> key, value |-> 0,
                   ret |-> IF s.fault = "none" THEN get_result(Self, key) ELSE 0,
                   hit |-> hit, evict |-> FALSE, changed |-> FALSE,
                   prev |-> Previous(key), work |-> s.work,
                   kept |-> SameEntry(s, key), made |-> Made(s), gone |-> Gone(s, key),
                   peak |-> Peak(get_steps(Self, key)), mid |-> Mid(get_steps(Self, key))]
       /\ touched' = IF hit /\ s.fault = "none"
                     THEN Touch(touched, key, DOMAIN s.cache) ELSE touched
       /\ stored' = stored
    /\ run' = [ok |-> FALSE, keys |-> <<>>]
    /\ UNCHANGED capacity

Put(key, value) ==
    /\ fault = "none"
    /\ FreeIds # {}
    /\ LET s == put_state(Self, capacity, key, value, NewId) IN
       /\ Finish(s)
       /\ last' = [op |-> "put", key |-> key, value |-> value, ret |-> 0,
                   hit |-> Has(cache, key),
                   evict |-> put_full(put_removed(Self, key), capacity),
                   changed |-> Has(cache, key) /\ nodes[cache[key]].value # value,
                   prev |-> "other", work |-> s.work,
                   kept |-> SameEntry(s, key), made |-> Made(s), gone |-> Gone(s, key),
                   peak |-> Peak(put_steps(Self, capacity, key, value, NewId)),
                   mid |-> Mid(put_steps(Self, capacity, key, value, NewId))]
       /\ touched' = IF s.fault = "none"
                     THEN Touch(touched, key, DOMAIN s.cache) ELSE touched
       /\ stored' = IF s.fault = "none"
                    THEN Kept((key :> value) @@ stored, DOMAIN s.cache) ELSE stored
    /\ run' = IF run.ok /\ key \notin SeqSet(run.keys)
              THEN [run EXCEPT !.keys = Append(run.keys, key)]
              ELSE [ok |-> FALSE, keys |-> <<>>]
    /\ UNCHANGED capacity

Next ==
    \/ \E key \in Keys : Get(key) /\ UNCHANGED alg
    \/ \E key \in Keys, value \in Values : Put(key, value) /\ UNCHANGED alg

Spec == Init /\ [][Next]_vars

\* Calls on caches wide enough to hold three keys and more, so that a call
\* on one key leaves two others to compare; every put stores the value 0.
WideCapacities == 1..MaxWideCapacity
WideKeys == 0..MaxWideKey

WideInit ==
    /\ \E cap \in WideCapacities : New(cap)
    /\ alg = [name |-> "wide"]

WideNext ==
    \/ \E key \in WideKeys : Get(key) /\ UNCHANGED alg
    \/ \E key \in WideKeys : Put(key, 0) /\ UNCHANGED alg

SpecWide == WideInit /\ [][WideNext]_vars

\* ------------------------------------------------- the module-level demo
\* Lines 52 to 61: a cache of capacity 2, then nine calls, the results of
\* the gets printed.  The script is taken for every choice k of the four
\* keys it uses; k = <<1, 2, 3, 4>> is the source's, and each put stores
\* its key as the value, as the source's does.
MaxDemoKey == 4
DemoKeys == 1..MaxDemoKey
DemoCapacity == 2

Script(k) ==
    << <<"put", k[1]>>, <<"put", k[2]>>, <<"get", k[1]>>,
       <<"put", k[3]>>, <<"get", k[2]>>, <<"put", k[4]>>,
       <<"get", k[1]>>, <<"get", k[3]>>, <<"get", k[4]>> >>

DemoInit ==
    /\ New(DemoCapacity)
    /\ \E k \in [1..4 -> DemoKeys] :
          alg = [name |-> "demo", keys |-> k, pc |-> 0, out |-> <<>>]

\* cache.put(k, k)
DemoPut ==
    /\ alg.pc < Len(Script(alg.keys))
    /\ LET call == Script(alg.keys)[alg.pc + 1] IN
       /\ call[1] = "put"
       /\ Put(call[2], call[2])
    /\ alg' = [alg EXCEPT !.pc = @ + 1]

\* print(cache.get(k))
DemoGet ==
    /\ alg.pc < Len(Script(alg.keys))
    /\ LET call == Script(alg.keys)[alg.pc + 1] IN
       /\ call[1] = "get"
       /\ Get(call[2])
    /\ alg' = [alg EXCEPT !.pc = @ + 1, !.out = Append(@, last'.ret)]

DemoNext == DemoPut \/ DemoGet

SpecDemo == DemoInit /\ [][DemoNext]_vars

\* ------------------------------------------ two calls on one cache at once
\* The source starts no thread.  Here two threads make one call each on the
\* cache of line 52, after some puts, and a step of a thread is one of the
\* structural steps of get and put: the test of the dict, the lookup, the
\* two link writes of _remove, its del, the link writes of _insert_to_head,
\* its dict write.  With alg.locked a thread holds a lock from the first
\* step of its call to the last; without, the steps of the two calls
\* interleave in every way.
MaxThreadKey == 1
ThreadKeys == 0..MaxThreadKey
Threads == {1, 2}

\* Lines 48 and 49 of _remove.
detach(s, node) ==
    IF s.fault # "none" THEN s
    ELSE
    LET n == s.nodes[node] IN
    IF n.prev = None THEN [s EXCEPT !.fault = "AttributeError"]
    ELSE
    LET s1 == [s EXCEPT !.nodes[n.prev].next = n.next, !.work = @ + 1] IN
    IF s1.nodes[node].next = None THEN [s1 EXCEPT !.fault = "AttributeError"]
    ELSE
    LET m == s1.nodes[node] IN
    [s1 EXCEPT !.nodes[m.next].prev = m.prev, !.work = @ + 1]

\* _remove without line 50.
unindex_never(s, node) == s

\* Line 50 of _remove.
unindex(s, node) ==
    IF s.fault # "none" THEN s
    ELSE IF ~Has(s.cache, s.nodes[node].key) THEN [s EXCEPT !.fault = "KeyError"]
    ELSE [s EXCEPT !.cache = DictDel(s.cache, s.nodes[node].key), !.work = @ + 1]

\* Lines 41 to 44 of _insert_to_head.
link(s, node) ==
    IF s.fault # "none" THEN s
    ELSE
    LET s1 == [s EXCEPT !.nodes[node].next = s.nodes[head].next, !.work = @ + 1]
        s2 == [s1 EXCEPT !.nodes[node].prev = head, !.work = @ + 1] IN
    IF s2.nodes[head].next = None THEN [s2 EXCEPT !.fault = "AttributeError"]
    ELSE
    LET s3 == [s2 EXCEPT !.nodes[s2.nodes[head].next].prev = node, !.work = @ + 1] IN
    [s3 EXCEPT !.nodes[head].next = node, !.work = @ + 1]

\* Line 45 of _insert_to_head.
index(s, node) ==
    IF s.fault # "none" THEN s
    ELSE [s EXCEPT !.cache = DictSet(s.cache, s.nodes[node].key, node), !.work = @ + 1]

\* An identity for the Node of line 37: one that no node of the heap has.
FreshId(h) == MaxOf(DOMAIN h) + 1

\* One step of the call of thread record t on the machine state s.  t.pc is
\* the step to take, t.node the local variable node (lru, new_node), t.stage
\* is 1 up to the end of line 32 of a put and 2 after it.
thread_step(s, cap, t) ==
    LET raised(x) == [s |-> [x EXCEPT !.fault = "none"],
                      t |-> [t EXCEPT !.pc = "raised", !.err = x.fault]]
        to(x, u) == IF x.fault # "none" THEN raised(x) ELSE [s |-> x, t |-> u] IN
    CASE t.pc = "check" ->
           IF Has(s.cache, t.key) THEN to(s, [t EXCEPT !.pc = "lookup"])
           ELSE IF t.op = "get" THEN to(s, [t EXCEPT !.pc = "done"])
           ELSE to(s, [t EXCEPT !.pc = "full", !.stage = 2])
      [] t.pc = "lookup" ->
           IF ~Has(s.cache, t.key) THEN raised([s EXCEPT !.fault = "KeyError"])
           ELSE to(s, [t EXCEPT !.pc = "detach", !.node = s.cache[t.key]])
      [] t.pc = "detach" -> to(detach(s, t.node), [t EXCEPT !.pc = "unindex"])
      [] t.pc = "unindex" ->
           to(unindex(s, t.node),
              IF t.op = "get" THEN [t EXCEPT !.pc = "link"]
              ELSE IF t.stage = 1 THEN [t EXCEPT !.pc = "full", !.stage = 2]
              ELSE [t EXCEPT !.pc = "link", !.node = None])
      [] t.pc = "full" ->
           IF Len_cache(s.cache) = cap THEN to(s, [t EXCEPT !.pc = "lru"])
           ELSE to(s, [t EXCEPT !.pc = "link", !.node = None])
      [] t.pc = "lru" -> to(s, [t EXCEPT !.pc = "detach", !.node = s.nodes[tail].prev])
      [] t.pc = "link" ->
           IF t.op = "get" THEN to(link(s, t.node), [t EXCEPT !.pc = "index"])
           ELSE LET id == FreshId(s.nodes) IN
                to(link([s EXCEPT !.nodes = (id :> Node(t.key, 0)) @@ s.nodes], id),
                   [t EXCEPT !.pc = "index", !.node = id])
      [] t.pc = "index" -> to(index(s, t.node), [t EXCEPT !.pc = "done"])

\* The cache after put(k, 0) for each k of keys in turn, each put a call
\* run alone.
RECURSIVE AfterPuts(_, _, _)
AfterPuts(s, cap, keys) ==
    IF keys = <<>> THEN s
    ELSE AfterPuts(Collect(put_state(s, cap, Head(keys), 0, FreshId(s.nodes))), cap, Tail(keys))

PriorPuts == UNION { [1..n -> ThreadKeys] : n \in 0..DemoCapacity }

ThreadsInit ==
    /\ capacity = DemoCapacity
    /\ \E keys \in PriorPuts :
         LET s == AfterPuts([cache |-> <<>>,
                             nodes |-> (head :> [Node(0, 0) EXCEPT !.next = tail]) @@
                                       (tail :> [Node(0, 0) EXCEPT !.prev = head]),
                             fault |-> "none", work |-> 0], DemoCapacity, keys) IN
         cache = s.cache /\ nodes = s.nodes
    /\ fault = "none"
    /\ last = [op |-> "init"]
    /\ touched = <<>> /\ stored = <<>> /\ run = <<>>
    /\ \E locked \in BOOLEAN, op \in [Threads -> {"get", "put"}], key \in [Threads -> ThreadKeys] :
         alg = [name |-> "threads", locked |-> locked, lock |-> 0,
                t |-> [i \in Threads |->
                         [op |-> op[i], key |-> key[i], pc |-> "check",
                          node |-> None, stage |-> 1, err |-> "none"]]]

\* Thread i takes the next step of its call.
ThreadStep(i) ==
    /\ alg.t[i].pc \notin {"done", "raised"}
    /\ alg.locked => alg.lock \in {0, i}
    /\ LET r == thread_step([cache |-> cache, nodes |-> nodes, fault |-> "none", work |-> 0],
                            capacity, alg.t[i]) IN
       /\ cache' = r.s.cache
       /\ nodes' = r.s.nodes
       /\ fault' = IF r.t.pc = "raised" /\ fault = "none" THEN r.t.err ELSE fault
       /\ alg' = [alg EXCEPT !.t[i] = r.t,
                             !.lock = IF r.t.pc \in {"done", "raised"} THEN 0 ELSE i]
    /\ UNCHANGED <<capacity, last, touched, stored, run>>

ThreadsNext == \E i \in Threads : ThreadStep(i)

SpecThreads == ThreadsInit /\ [][ThreadsNext]_vars

\* Both calls have ended, by a return or by an exception.
Quiescent == \A i \in Threads : alg.t[i].pc \in {"done", "raised"}

\* The list from self.head reaches self.tail, each node is the prev of its
\* next, and the keys of the list are those of the dict, each once, the
\* dict mapping each key to the node of the list that holds it.
Consistent(c, h) ==
    LET chain == Chain(h, h[head].next, {head})
        all == <<head>> \o chain \o <<tail>> IN
    /\ h[head].prev = None /\ h[tail].next = None
    /\ \A i \in 1..(Len(all) - 1) : h[all[i]].next = all[i + 1] /\ h[all[i + 1]].prev = all[i]
    /\ Len(chain) = Cardinality(DOMAIN c)
    /\ \A k \in DOMAIN c : c[k] \in SeqSet(chain) /\ h[c[k]].key = k

\* ------------------------------------------------------------------------
\* The functions of the other files run without a cache: the variables of
\* the cache stay as a constructor leaves them and alg holds the run.
NoCache == New(0)

\* A Python list is a sequence; list[i] counts from 0, counts from the end
\* for -len <= i < 0, and raises IndexError elsewhere.
InList(seq, i) == 0 - Len(seq) <= i /\ i < Len(seq)
Item(seq, i) == IF i >= 0 THEN seq[i + 1] ELSE seq[Len(seq) + i + 1]

\* ------------------------------- src/LeetCode/704_Binary_Search.py: search
MaxLen == 3          \* lists of 0..MaxLen numbers
MaxElem == 3         \* the numbers 0..MaxElem; targets from -1 to MaxElem + 1

Elems == 0..MaxElem
Targets == (0 - 1)..(MaxElem + 1)
Ascends(seq) == \A i \in 1..(Len(seq) - 1) : seq[i] <= seq[i + 1]
SortedLists == UNION { { f \in [1..n -> Elems] : Ascends(f) } : n \in 0..MaxLen }

\* Line 33 with high = mid for high = mid - 1.
search_step_high_mid(a) ==
    IF a.low <= a.high
    THEN LET mid == a.low + (a.high - a.low) \div 2 IN
         IF ~InList(a.nums, mid)
         THEN [a EXCEPT !.pc = "done", !.fault = "IndexError", !.reads = @ \cup {mid}]
         ELSE LET x == Item(a.nums, mid)
                  b == [a EXCEPT !.reads = @ \cup {mid}, !.iter = @ + 1] IN
              IF x = a.target THEN [b EXCEPT !.pc = "done", !.ret = mid]
              ELSE IF x > a.target THEN [b EXCEPT !.high = mid]
              ELSE [b EXCEPT !.low = mid + 1]
    ELSE [a EXCEPT !.pc = "done", !.ret = 0 - 1]

\* Lines 24 to 38: the test of the while, then one pass of its body or the
\* return -1 after it.
\*     mid = low + (high - low) // 2
\*     if nums[mid] == target: return mid
\*     if nums[mid] > target: high = mid - 1
\*     if nums[mid] < target: low = mid + 1
search_step(a) ==
    IF a.low <= a.high
    THEN LET mid == a.low + (a.high - a.low) \div 2 IN
         IF ~InList(a.nums, mid)
         THEN [a EXCEPT !.pc = "done", !.fault = "IndexError", !.reads = @ \cup {mid}]
         ELSE LET x == Item(a.nums, mid)
                  b == [a EXCEPT !.reads = @ \cup {mid}, !.iter = @ + 1] IN
              IF x = a.target THEN [b EXCEPT !.pc = "done", !.ret = mid]
              ELSE IF x > a.target THEN [b EXCEPT !.high = mid - 1]
              ELSE [b EXCEPT !.low = mid + 1]
    ELSE [a EXCEPT !.pc = "done", !.ret = 0 - 1]

\* Lines 21 and 22, for any ascending list and any target.
SearchInit ==
    /\ NoCache
    /\ \E nums \in SortedLists, target \in Targets :
          alg = [name |-> "search", nums |-> nums, target |-> target,
                 low |-> 0, high |-> Len(nums) - 1, pc |-> "loop", ret |-> 0,
                 reads |-> {}, iter |-> 0, fault |-> "none"]

\* The passes are counted, and a run is followed for MaxLen + 2 passes at most.
SearchStep ==
    /\ alg.pc = "loop"
    /\ alg.iter <= MaxLen + 1
    /\ alg' = search_step(alg)
    /\ UNCHANGED <<capacity, cache, nodes, fault, last, touched, stored, run>>

SpecSearch == SearchInit /\ [][SearchStep]_vars

\* ---------------------------------------- src/79_Word_search.py: exist
BoardRows == 2       \* boards of BoardRows x BoardCols letters
BoardCols == 2
MaxWordLen == 3      \* words of 1..MaxWordLen letters

Letters == {"A", "B"}
Boards == [1..BoardRows -> [1..BoardCols -> Letters]]
Words == UNION { [1..n -> Letters] : n \in 1..MaxWordLen }

\* The board and the words of the asserts of lines 59 to 63.
ExampleBoard == << <<"A", "B", "C", "E">>, <<"S", "F", "C", "S">>, <<"A", "D", "E", "E">> >>
ExampleWords == { <<"A", "B", "C", "C", "E">>, <<"A", "B", "C", "C", "S">>,
                  <<"A", "B", "C", "C", "T">>, <<"S", "E", "E">>, <<"A", "B", "C", "B">> }

\* findWord(row, col, wordIndexBeingCompared), lines 14 to 45, on the board
\* as it is when the call is made; the result is the returned value or the
\* exception, and the board as the call leaves it.  word[i] with
\* i >= len(word) raises IndexError; `and` does not read word when the cell
\* holds 'X'.
RECURSIVE findWord(_, _, _, _, _)
findWord(board, word, row, col, i) ==
    IF row < 0 \/ row >= Len(board) \/ col < 0 \/ col >= Len(board[1])
    THEN [ret |-> FALSE, fault |-> "none", board |-> board]
    ELSE
    LET currentChar == board[row + 1][col + 1] IN
    IF currentChar = "X" THEN [ret |-> FALSE, fault |-> "none", board |-> board]
    ELSE IF i >= Len(word) THEN [ret |-> FALSE, fault |-> "IndexError", board |-> board]
    ELSE IF currentChar # word[i + 1] THEN [ret |-> FALSE, fault |-> "none", board |-> board]
    ELSE IF i = Len(word) THEN [ret |-> TRUE, fault |-> "none", board |-> board]
    ELSE
    LET marked == [board EXCEPT ![row + 1][col + 1] = "X"]
        r1 == findWord(marked, word, row, col - 1, i + 1) IN
    IF r1.ret \/ r1.fault # "none" THEN r1 ELSE
    LET r2 == findWord(r1.board, word, row, col + 1, i + 1) IN
    IF r2.ret \/ r2.fault # "none" THEN r2 ELSE
    LET r3 == findWord(r2.board, word, row - 1, col, i + 1) IN
    IF r3.ret \/ r3.fault # "none" THEN r3 ELSE
    LET r4 == findWord(r3.board, word, row + 1, col, i + 1) IN
    IF r4.ret \/ r4.fault # "none" THEN r4 ELSE
    [ret |-> FALSE, fault |-> "none",
     board |-> [r4.board EXCEPT ![row + 1][col + 1] = currentChar]]

\* The two for loops of lines 48 to 54, from cell number n in row order.
RECURSIVE existFrom(_, _, _)
existFrom(board, word, n) ==
    IF n >= Len(board) * Len(board[1])
    THEN [ret |-> FALSE, fault |-> "none", board |-> board]
    ELSE LET r == findWord(board, word, n \div Len(board[1]), n % Len(board[1]), 0) IN
         IF r.ret \/ r.fault # "none" THEN r ELSE existFrom(r.board, word, n + 1)

\* exist(board, word)
exist(board, word) == existFrom(board, word, 0)

ExistInit ==
    /\ NoCache
    /\ \/ \E board \in Boards, word \in Words :
            alg = [name |-> "exist", board |-> board, word |-> word,
                   pc |-> "call", ret |-> FALSE, fault |-> "none"]
       \/ \E word \in ExampleWords :
            alg = [name |-> "exist", board |-> ExampleBoard, word |-> word,
                   pc |-> "call", ret |-> FALSE, fault |-> "none"]

ExistCall ==
    /\ alg.pc = "call"
    /\ LET r == exist(alg.board, alg.word) IN
       alg' = [alg EXCEPT !.pc = "done", !.ret = r.ret, !.fault = r.fault]
    /\ UNCHANGED <<capacity, cache, nodes, fault, last, touched, stored, run>>

SpecExist == ExistInit /\ [][ExistCall]_vars

\* word[i..] can be spelled from cell (row, col) along cells next to each
\* other in a row or a column, none of them in used and none used twice.
RECURSIVE Spells(_, _, _, _, _, _)
Spells(board, word, row, col, i, used) ==
    /\ row \in 1..Len(board) /\ col \in 1..Len(board[1])
    /\ <<row, col>> \notin used
    /\ board[row][col] = word[i]
    /\ \/ i = Len(word)
       \/ \E d \in {<<0, 1>>, <<0, 0 - 1>>, <<1, 0>>, <<0 - 1, 0>>} :
            Spells(board, word, row + d[1], col + d[2], i + 1, used \cup {<<row, col>>})

PathExists(board, word) ==
    \E row \in 1..Len(board), col \in 1..Len(board[1]) : Spells(board, word, row, col, 1, {})

\* ------------------------------------- src/7_Reverse_Integer.py: reverse
\* Python's int has no width and TLC's has 32 bits, so that every number
\* below is written in a form whose parts all lie in [MIN_INT, MAX_INT].
MAX_INT == 2147483647
MIN_INT == 0 - MAX_INT - 1

MaxX == 130          \* the arguments -MaxX..MaxX, and those of EdgeX

\* Arguments at the ends of the 32-bit range and around the values whose
\* reverse passes them.
EdgeX == { MAX_INT, MIN_INT, MIN_INT + 1, MAX_INT - 1,
           1463847412, 0 - 1463847412, 1563847412, 0 - 1563847412,
           1534236469, 0 - 1534236469, 1000000003, 0 - 1000000003,
           1000000002, 0 - 1000000002, 1999999999, 0 - 1999999999,
           2000000000, 0 - 2000000000, 2147447412, 0 - 2147447412,
           1147483648, 1056389759, 0 - 2143847412, 2143847412 }

\* Line 16 with qoutient % 10 on both branches: Python's % takes the sign
\* of the divisor, so that -123 % 10 is 7.
reminder_floor(q) == q % 10

\* Line 16: qoutient % 10 if qoutient > 0 else qoutient % -10.  For q <= 0
\* Python's q % -10 is the number in -9..0 that differs from q by a
\* multiple of 10.
reminder_of(q) == IF q > 0 THEN q % 10 ELSE 0 - ((10 - (q % 10)) % 10)

\* Line 17: math.trunc(qoutient / 10), the quotient rounded toward zero
\* (the float qoutient / 10 is within 1e-7 of the exact quotient for 32-bit
\* arguments, so that trunc gives the exact result).
trunc_div10(q) == IF q >= 0 THEN q \div 10 ELSE (q + 9) \div 10

\* Line 19, for ans = a * 10 + r: ans > MAX_INT, and ans < MIN_INT.
TooBig(a, r) ==
    IF r >= 0 THEN a > (MAX_INT - r) \div 10
    ELSE a - 1 > (MAX_INT - (r + 10)) \div 10

TooSmall(a, r) ==
    IF r <= 0 THEN a < (MIN_INT - r + 9) \div 10
    ELSE a + 1 < (MIN_INT - (r - 10) + 9) \div 10

\* Lines 15 to 23: the test of the while, then one pass of its body or the
\* return after it.
reverse_step(a) ==
    IF a.qoutient # 0
    THEN LET reminder == reminder_of(a.qoutient)
             qoutient == trunc_div10(a.qoutient) IN
         IF TooBig(a.ans, reminder) \/ TooSmall(a.ans, reminder)
         THEN [a EXCEPT !.pc = "done", !.ret = 0, !.qoutient = qoutient, !.iter = @ + 1]
         ELSE [a EXCEPT !.ans = a.ans * 10 + reminder, !.qoutient = qoutient,
                        !.iter = @ + 1]
    ELSE [a EXCEPT !.pc = "done", !.ret = a.ans]

\* Lines 11 to 13.
ReverseInit ==
    /\ NoCache
    /\ \E x \in ((0 - MaxX)..MaxX) \cup EdgeX :
          alg = [name |-> "reverse", x |-> x, ans |-> 0, qoutient |-> x,
                 pc |-> "loop", ret |-> 0, iter |-> 0]

\* The passes are counted, and a run is followed for 11 passes at most.
ReverseStep ==
    /\ alg.pc = "loop"
    /\ alg.iter <= 10 \/ alg.qoutient = 0
    /\ alg' = reverse_step(alg)
    /\ UNCHANGED <<capacity, cache, nodes, fault, last, touched, stored, run>>

SpecReverse == ReverseInit /\ [][ReverseStep]_vars

\* The decimal digits of |x| by position: digit i (from 0, the units) is
\* that of |x| with its last i digits cut off.
RECURSIVE Pow10(_)
Pow10(i) == IF i = 0 THEN 1 ELSE 10 * Pow10(i - 1)
CutOff(x, i) == IF x >= 0 THEN x \div Pow10(i) ELSE (x + Pow10(i) - 1) \div Pow10(i)
DigitAt(x, i) == LET t == CutOff(x, i) IN IF t >= 0 THEN t % 10 ELSE (10 - (t % 10)) % 10
NumDigits(x) ==
    IF x = 0 THEN 0
    ELSE CHOOSE n \in 1..10 : CutOff(x, n - 1) # 0 /\ (n = 10 \/ CutOff(x, n) = 0)

\* The digits of |x| in reverse order, the first digit of the result first,
\* and the same without the leading zeros.
ReversedDigits(x) == [i \in 1..NumDigits(x) |-> DigitAt(x, i - 1)]
RECURSIVE NoLeadingZeros(_)
NoLeadingZeros(d) == IF d # <<>> /\ Head(d) = 0 THEN NoLeadingZeros(Tail(d)) ELSE d

\* The digits of 2^31 - 1, and of 2^31.
MaxDigits == <<2, 1, 4, 7, 4, 8, 3, 6, 4, 7>>
MinDigits == <<2, 1, 4, 7, 4, 8, 3, 6, 4, 8>>

\* d <= e for numbers of the same number of digits.
NotAbove(d, e) ==
    \/ d = e
    \/ \E i \in 1..Len(d) : d[i] < e[i] /\ \A j \in 1..(i - 1) : d[j] = e[j]

Fits(d, negative) ==
    \/ Len(d) < 10
    \/ Len(d) = 10 /\ NotAbove(d, IF negative THEN MinDigits ELSE MaxDigits)

RECURSIVE NumberOf(_)
NumberOf(d) == IF d = <<>> THEN 0 ELSE NumberOf(SubSeq(d, 1, Len(d) - 1)) * 10 + d[Len(d)]

\* What the claim says reverse(x) is.
Reversed(x) ==
    LET d == NoLeadingZeros(ReversedDigits(x)) IN
    IF ~Fits(d, x < 0) THEN 0
    ELSE IF x < 0 THEN 0 - NumberOf(d) ELSE NumberOf(d)

\* ------------------------------------------------------- observations
\* The keys of the nodes met from self.head along next, up to self.tail.
ListKeys(h) == LET chain == Chain(h, h[head].next, {head}) IN
               [i \in 1..Len(chain) |-> h[chain[i]].key]

\* The nodes met from n along prev, up to self.head, None or a node met before.
RECURSIVE ChainBack(_, _, _)
ChainBack(h, n, seen) ==
    IF n = head \/ n = None \/ n \notin DOMAIN h \/ n \in seen THEN <<>>
    ELSE <<n>> \o ChainBack(h, h[n].prev, seen \cup {n})

Reverse(seq) == [i \in 1..Len(seq) |-> seq[Len(seq) + 1 - i]]

\* The keys of the dict, and their number.
Present(c) == DOMAIN c
Size(c) == Cardinality(DOMAIN c)

\* The value the entry of a present key holds.
ValueOf(c, h, key) == h[c[key]].value

\* The present key whose last touch is the oldest.
OldestTouched == touched[Len(touched)]

\* The step is a call put(key, .) / get(key).
IsPut(key) == last'.op = "put" /\ last'.key = key
IsGet(key) == last'.op = "get" /\ last'.key = key

\* ------------------------------------------------------------- claims

\* C1 (LRU eviction): on a cache of positive capacity, a put(K, V) with K
\* absent and size = capacity removes exactly one key, the present key whose
\* most recent touch (a get that hit, or a put) is the oldest; every other
\* present key stays, K becomes present and size is again capacity.
C1_LruEviction ==
    [][\A K \in Keys :
        (capacity > 0 /\ IsPut(K) /\ K \notin Present(cache) /\ Size(cache) = capacity)
        => /\ fault' = "none"
           /\ touched # <<>>
           /\ OldestTouched \in Present(cache)
           /\ Present(cache') = (Present(cache) \ {OldestTouched}) \cup {K}
           /\ Size(cache') = capacity]_vars

\* A put of an absent key has evicted, in a cache of capacity 2 or more.
C1_Witness ==
    /\ capacity >= 2 /\ fault = "none"
    /\ last.op = "put" /\ ~last.hit /\ last.evict
    /\ Size(cache) = capacity

\* C2 (capacity bound): for a positive capacity, the number of keys of the
\* dict is at most capacity in every state between calls.
C2_CapacityBound == capacity > 0 => Size(cache) <= capacity

\* A full cache after a put that had to evict.
C2_Witness ==
    capacity > 0 /\ Size(cache) = capacity /\ last.op = "put" /\ last.evict /\ fault = "none"

\* C3 (index/list consistency): the keys of the dict are the keys of the
\* nodes met from head to tail, in every state between calls.
C3_IndexListConsistency == Present(cache) = SeqSet(ListKeys(nodes))

\* A get has hit in a cache of two entries or more.
C3_Witness ==
    Size(cache) >= 2 /\ last.op = "get" /\ last.hit /\ fault = "none"

\* C4 (promotion): on a cache of positive capacity, after a get(K) that hits
\* and after a put(K, V), the call has returned and head.next is an entry
\* that holds key K.
C4_Promotion ==
    (capacity > 0 /\ ((last.op = "get" /\ last.hit) \/ last.op = "put"))
    => /\ fault = "none"
       /\ nodes[head].next \notin {None, head, tail}
       /\ nodes[nodes[head].next].key = last.key

\* A get has hit, and its key is first in the list before another entry.
C4_Witness ==
    fault = "none" /\ last.op = "get" /\ last.hit /\ Size(cache) >= 2
    /\ nodes[nodes[head].next].key = last.key

\* C5 (get returns the stored value): on a cache of positive capacity, a
\* get(K) that finds K returns the value of the most recent put(K, .),
\* whatever calls on other keys came in between.
C5_GetReturnsStored ==
    (capacity > 0 /\ last.op = "get" /\ last.hit)
    => /\ fault = "none"
       /\ last.key \in DOMAIN stored
       /\ last.ret = stored[last.key]

\* A get has hit right after a call on another key, with another entry present.
C5_Witness ==
    /\ fault = "none" /\ last.op = "get" /\ last.hit /\ last.prev = "other"
    /\ Size(cache) >= 2
    /\ last.ret = stored[last.key]

\* C6 (a miss is a pure read): get(K) with K not in the dict, the empty
\* dict included, returns the miss marker and changes neither the dict, nor
\* any node (key, value, prev, next), nor the capacity.
C6_GetMissPure ==
    [][\A K \in Keys :
        (IsGet(K) /\ K \notin Present(cache))
        => /\ fault' = "none"
           /\ last'.ret = Miss
           /\ UNCHANGED <<capacity, cache, nodes>>]_vars

\* A get has missed on a cache that holds entries.
C6_Witness ==
    fault = "none" /\ last.op = "get" /\ ~last.hit /\ last.ret = Miss /\ Size(cache) >= 1

\* C7 (an update never evicts): put(K, V) with K in the dict returns, keeps
\* the set of keys and the size, takes no eviction branch even at
\* size = capacity, and leaves the value of every other key and the order of
\* the other keys in the list as they were.
C7_UpdateNeverEvicts ==
    [][\A K \in Keys :
        (IsPut(K) /\ K \in Present(cache))
        => /\ fault' = "none"
           /\ Present(cache') = Present(cache)
           /\ Size(cache') = Size(cache)
           /\ ~last'.evict
           /\ \A k \in Present(cache) \ {K} :
                 ValueOf(cache', nodes', k) = ValueOf(cache, nodes, k)
           /\ Without(ListKeys(nodes'), {K}) = Without(ListKeys(nodes), {K})]_vars

\* A put has replaced the value of a present key in a full cache of capacity 2 or more.
C7_Witness ==
    /\ fault = "none" /\ last.op = "put" /\ last.hit /\ last.changed
    /\ capacity >= 2 /\ Size(cache) = capacity

\* C8 (insert below capacity): put(K, V) with K absent and size < capacity
\* returns, links K's entry first in the list before the entries that were
\* there, adds K to the dict, raises size by one and removes no key.
C8_InsertBelowCapacity ==
    [][\A K \in Keys :
        (IsPut(K) /\ K \notin Present(cache) /\ Size(cache) < capacity)
        => /\ fault' = "none"
           /\ Present(cache') = Present(cache) \cup {K}
           /\ Size(cache') = Size(cache) + 1
           /\ ListKeys(nodes') = <<K>> \o ListKeys(nodes)
           /\ ValueOf(cache', nodes', K) = last'.value]_vars

\* A put has inserted a new key beside an entry that was there, without evicting.
C8_Witness ==
    /\ fault = "none" /\ last.op = "put" /\ ~last.hit /\ ~last.evict
    /\ Size(cache) >= 2

\* C9 (put/get round trip): on a cache of positive capacity, a get(K) that
\* is the call right after a put(K, V) hits and returns V, whether the put
\* inserted K or replaced another value of K.
C9_PutGetRoundTrip ==
    [][\A K \in Keys :
        (capacity > 0 /\ fault = "none" /\ last.op = "put" /\ last.key = K /\ IsGet(K))
        => /\ fault' = "none"
           /\ last'.hit
           /\ last'.ret = last.value]_vars

\* A get has followed a put on its key that replaced a different value.
C9_Witness ==
    fault = "none" /\ last.op = "get" /\ last.hit /\ last.prev = "update"

\* C10 (eviction correctness): when the calls since construction with
\* capacity c >= 1 are c + 1 puts of pairwise distinct keys, the first key is
\* not in the dict and the c others are.
C10_EvictsFirstInserted ==
    (capacity >= 1 /\ run.ok /\ Len(run.keys) = capacity + 1)
    => /\ fault = "none"
       /\ run.keys[1] \notin Present(cache)
       /\ \A i \in 2..(capacity + 1) : run.keys[i] \in Present(cache)

\* Three distinct keys have been put in a new cache of capacity 2.
C10_Witness ==
    capacity >= 2 /\ run.ok /\ Len(run.keys) = capacity + 1 /\ fault = "none"

\* C11 (repeated reads): when a get(K) that hit is followed at once by a
\* second get(K), the second returns the same value and leaves the dict,
\* every node with its links, and the touch order as the first left them.
C11_RepeatedGet ==
    [][\A K \in Keys :
        (fault = "none" /\ last.op = "get" /\ last.key = K /\ last.hit /\ IsGet(K))
        => /\ fault' = "none"
           /\ last'.hit
           /\ last'.ret = last.ret
           /\ UNCHANGED <<capacity, cache, nodes, touched, stored>>
           /\ nodes'[nodes'[tail].prev].key = nodes[nodes[tail].prev].key]_vars

\* A get has hit right after a get of the same key, in a cache of two entries or more.
C11_Witness ==
    fault = "none" /\ last.op = "get" /\ last.hit /\ last.prev = "get" /\ Size(cache) >= 2

\* C12 (reference scenario): on a cache of capacity 2, put(1,1), put(2,2),
\* get(1), put(3,3), get(2), put(4,4), get(1), get(3), get(4) print
\* 1, -1, -1, 3, 4; put(3,3) evicts key 2 and keeps key 1, and put(4,4)
\* evicts key 1.
C12_ReferenceScenario ==
    (alg.name = "demo" /\ alg.keys = <<1, 2, 3, 4>>)
    => /\ fault = "none"
       /\ alg.pc = 3 => (Present(cache) = {1, 2} /\ alg.out = <<1>>)
       /\ alg.pc = 4 => (Present(cache) = {1, 3} /\ last.evict)
       /\ alg.pc = 5 => (Present(cache) = {1, 3} /\ alg.out = <<1, Miss>>)
       /\ alg.pc = 6 => (Present(cache) = {3, 4} /\ last.evict)
       /\ alg.pc = 9 => alg.out = <<1, Miss, Miss, 3, 4>>

\* The source's script has run to its end.
C12_Witness ==
    /\ alg.name = "demo" /\ alg.keys = <<1, 2, 3, 4>> /\ alg.pc = 9
    /\ capacity = 2 /\ alg.out = <<1, Miss, Miss, 3, 4>>

\* C13 (construction rejects an invalid capacity): LRUCache(capacity) with
\* capacity <= 0 fails, so that no cache has a capacity that is not
\* positive and no call is made on one.
C13_RejectsInvalidCapacity == capacity > 0

\* C14 (no faults in valid use): on a cache of positive capacity no get and
\* no put raises; the node an eviction passes to _remove is an entry, not
\* head or tail, its prev and next are nodes, and its key is in the dict.
C14_NoFaults ==
    [][capacity > 0 =>
        /\ fault' = "none"
        /\ \A K \in Keys :
             (IsPut(K) /\ last'.evict)
             => LET s == put_removed(Self, K)
                    lru == s.nodes[tail].prev IN
                /\ lru \notin {None, head, tail}
                /\ s.nodes[lru].prev # None
                /\ s.nodes[lru].next # None
                /\ Has(s.cache, s.nodes[lru].key)
        /\ \A K \in Keys :
             ((IsPut(K) \/ IsGet(K)) /\ K \in Present(cache))
             => /\ cache[K] \notin {None, head, tail}
                /\ nodes[cache[K]].prev # None
                /\ nodes[cache[K]].next # None
                /\ nodes[cache[K]].key = K]_vars

\* A put has evicted and returned, on a cache of capacity 1.
C14_Witness ==
    capacity = 1 /\ fault = "none" /\ last.op = "put" /\ last.evict /\ Size(cache) = 1

\* C15 (constant work): the number of statements of _remove and
\* _insert_to_head a call runs depends on the branch taken only, never on
\* the number of entries: none for a get that misses, 3 + 5 for a get that
\* hits, for a put on a present key and for a put that evicts, and 5 for a
\* put that inserts below capacity; no call walks the list.
C15_ConstantWork ==
    (capacity > 0 /\ last.op # "init")
    => /\ fault = "none"
       /\ last.work = IF last.op = "get" THEN (IF last.hit THEN 3 + 5 ELSE 0)
                      ELSE IF last.hit \/ last.evict THEN 3 + 5
                      ELSE 5

\* A put has evicted in a full cache of capacity 2 or more.
C15_Witness ==
    /\ capacity >= 2 /\ fault = "none" /\ Size(cache) = capacity
    /\ last.op = "put" /\ last.evict /\ last.work = 3 + 5

\* C16 (binary search): for every ascending list, the empty one included,
\* and every target, search reads only indices 0..len-1, raises nothing,
\* ends (each pass shortens low..high, so there are at most len passes), and
\* returns an index of target when target is in the list and -1 when not.
C16_BinarySearch ==
    alg.name = "search" =>
      LET n == Len(alg.nums) IN
      /\ alg.fault = "none"
      /\ alg.reads \subseteq 0..(n - 1)
      /\ alg.iter <= n
      /\ alg.pc = "loop" => (alg.high - alg.low + 1 <= n - alg.iter /\ alg.low >= 0)
      /\ alg.pc = "done" =>
            IF \E i \in 1..n : alg.nums[i] = alg.target
            THEN alg.ret \in 0..(n - 1) /\ alg.nums[alg.ret + 1] = alg.target
            ELSE alg.ret = 0 - 1

\* A target was found in a list of three numbers on the second pass.
C16_Witness ==
    /\ alg.name = "search" /\ alg.pc = "done" /\ Len(alg.nums) = 3
    /\ alg.iter = 2 /\ alg.ret = 2 /\ alg.nums[3] = alg.target

\* C17 (word search): exist(board, word) raises no index error and returns
\* True exactly when word can be spelled along a path of cells next to each
\* other in a row or a column that uses no cell twice.
C17_WordSearch ==
    (alg.name = "exist" /\ alg.pc = "done")
    => /\ alg.fault = "none"
       /\ alg.ret <=> PathExists(alg.board, alg.word)

\* C18 (reverse integer): for a 32-bit x, reverse(x) ends, after one pass
\* for each digit of x at most, and returns the number whose digits are
\* those of |x| in reverse order, leading zeros dropped, with the sign of x,
\* when that number is in [-2^31, 2^31 - 1], and 0 when it is not.
C18_ReverseInteger ==
    alg.name = "reverse" =>
      /\ alg.iter <= NumDigits(alg.x)
      /\ alg.pc = "loop" => NumDigits(alg.qoutient) = NumDigits(alg.x) - alg.iter
      /\ alg.pc = "done" => alg.ret = Reversed(alg.x)

\* reverse has returned 0 for a negative argument whose reverse is below -2^31.
C18_Witness ==
    /\ alg.name = "reverse" /\ alg.pc = "done"
    /\ alg.x = 0 - 1563847412 /\ alg.ret = 0 /\ alg.iter = 10

\* C19 (recency order of the whole list): between calls, the keys met from
\* self.head.next along next up to self.tail are the present keys, each
\* once, from the most recently touched to the least recently touched (a
\* touch is a get that hit, or a put), so that self.tail.prev holds the
\* present key whose last touch is the oldest.
C19_RecencyOrder ==
    alg.name = "calls" =>
      /\ ListKeys(nodes) = touched
      /\ SeqSet(touched) = Present(cache)
      /\ Len(touched) = Size(cache)
      /\ touched # <<>> => nodes[nodes[tail].prev].key = OldestTouched

\* A get has hit in a cache of two keys or more, the call before it not
\* being a call on the same key; its key is now the first of the list.
C19_Witness ==
    /\ alg.name = "calls" /\ fault = "none"
    /\ last.op = "get" /\ last.hit /\ last.prev = "other"
    /\ Size(cache) >= 2
    /\ ListKeys(nodes)[1] = last.key

C21_EvictBeforeInsert ==
    [][\A K \in Keys :
        (capacity > 0 /\ IsPut(K))
        => /\ last'.peak <= capacity
           /\ (K \notin Present(cache) /\ Size(cache) = capacity)
              => /\ fault' = "none"
                 /\ last'.mid.keys = Present(cache) \ {OldestTouched}
                 /\ last'.mid.list = SubSeq(touched, 1, Len(touched) - 1)
                 /\ K \notin last'.mid.keys
                 /\ K \notin SeqSet(last'.mid.list)]_vars

\* A put of an absent key has evicted from a cache of two keys, and the
\* dict held two keys at most during the call.
C21_Witness ==
    /\ alg.name = "calls" /\ fault = "none" /\ capacity = 2
    /\ last.op = "put" /\ ~last.hit /\ last.evict
    /\ last.peak = 2 /\ Cardinality(last.mid.keys) = 1

\* C22 (entry life cycle): from one state between calls to the next, a key
\* K that was absent is present only if the call was a put on K, and a key
\* K that was present is absent only if the call was a put on another key
\* J that was absent, made with as many keys in the dict as capacity.
C22_LifeCycle ==
    [][\A K \in Keys :
        /\ (K \notin Present(cache) /\ K \in Present(cache')) => IsPut(K)
        /\ (K \in Present(cache) /\ K \notin Present(cache'))
           => \E J \in Keys \ {K} :
                /\ IsPut(J)
                /\ J \notin Present(cache)
                /\ Size(cache) = capacity]_vars

\* In a cache of capacity 1, a put of an absent key has evicted the key
\* that was there, and its own key is the present one.
C22_Witness ==
    /\ alg.name = "calls" /\ fault = "none" /\ capacity = 1
    /\ last.op = "put" /\ ~last.hit /\ last.evict
    /\ Present(cache) = {last.key}
    /\ last.mid.keys = {}

\* C23 (one critical section for each call): when each of two calls on one
\* cache holds a lock from its first step to its last, no call raises, and
\* once both have returned the dict and the list agree and the links are
\* those of a doubly linked list from self.head to self.tail.  (That a bad
\* state is reached without the lock is C23_Witness.)
C23_CriticalSection ==
    (alg.name = "threads" /\ alg.locked)
    => /\ fault = "none"
       /\ \A i \in Threads : alg.t[i].err = "none"
       /\ alg.lock = 0 => Consistent(cache, nodes)

\* Without the lock: two calls on the same key have both unlinked the node
\* of the key, the del of the second has raised KeyError, and what is left
\* when both have ended is a dict and a list that disagree.
C23_Witness ==
    /\ alg.name = "threads" /\ ~alg.locked /\ Quiescent
    /\ alg.t[1].key = alg.t[2].key
    /\ \E i \in Threads : alg.t[i].err = "KeyError" /\ alg.t[i].node # None
    /\ ~Consistent(cache, nodes)

\* C24 (well-formed doubly linked list): after the constructor and after
\* every get and put, the nodes met from self.head along next end at
\* self.tail with no node met twice; head.prev and tail.next are None and no
\* other prev or next of these nodes is None; n.next.prev is n for each of
\* them but self.tail; and the nodes met from self.tail along prev are the
\* same in reverse order.
C24_WellFormedList ==
    alg.name = "calls" =>
      LET chain == Chain(nodes, nodes[head].next, {head})
          front == <<head>> \o chain IN
      /\ nodes[front[Len(front)]].next = tail
      /\ nodes[head].prev = None /\ nodes[tail].next = None
      /\ \A n \in SeqSet(front) : nodes[n].next # None
      /\ \A n \in SeqSet(chain) \cup {tail} : nodes[n].prev # None
      /\ \A n \in SeqSet(front) : nodes[nodes[n].next].prev = n
      /\ ChainBack(nodes, nodes[tail].prev, {tail}) = Reverse(chain)

\* A get has hit one of two entries, the call before it not being a call
\* on its key: its node is the first of the list and the other the second.
C24_Witness ==
    /\ alg.name = "calls" /\ fault = "none"
    /\ last.op = "get" /\ last.hit /\ last.prev = "other"
    /\ Len(Chain(nodes, nodes[head].next, {head})) = 2
    /\ nodes[nodes[head].next].key = last.key
    /\ last.mid.list # <<>> /\ touched[2] = last.mid.list[1]

\* C25 (unique keys and exact handles): after every get and put no key is
\* held by two nodes of the list, the list has as many nodes between
\* self.head and self.tail as the dict has keys, and the dict maps each of
\* its keys K to a node of the list whose key is K.
C25_UniqueKeysExactHandles ==
    alg.name = "calls" =>
      LET chain == Chain(nodes, nodes[head].next, {head}) IN
      /\ \A i, j \in 1..Len(chain) : i # j => nodes[chain[i]].key # nodes[chain[j]].key
      /\ Len(chain) = Size(cache)
      /\ \A K \in Present(cache) :
            /\ \E i \in 1..Len(chain) : chain[i] = cache[K]
            /\ nodes[cache[K]].key = K

\* A put on a present key, in a cache of two keys, has left the node the
\* dict mapped the key to unreferenced and maps the key to another node.
C25_Witness ==
    /\ alg.name = "calls" /\ fault = "none"
    /\ last.op = "put" /\ last.hit /\ last.gone /\ ~last.kept
    /\ Size(cache) = 2
    /\ nodes[cache[last.key]].key = last.key

\* self.head and self.tail are the ends of the list and no entry: the dict
\* maps no key to them, and the node before self.tail is neither when the
\* dict holds cap keys.
SentinelsApart(c, h, cap) ==
    /\ \A K \in DOMAIN c : c[K] \notin {head, tail}
    /\ Len_cache(c) = cap => h[tail].prev \notin {head, tail}
    /\ h[head].prev = None /\ h[tail].next = None
    /\ LET front == <<head>> \o Chain(h, h[head].next, {head}) IN
       h[front[Len(front)]].next = tail /\ h[tail].prev = front[Len(front)]

\* C26 (the dummy nodes are not entries, even for key 0): on a cache of
\* positive capacity the dict never maps a key to self.head or self.tail,
\* the node a full cache would evict is neither of them, and no call raises
\* or leaves self.head or self.tail unlinked; get(0) as the first call
\* returns -1, and get(0) right after put(0, v) returns v.
C26_SentinelsNotEntries ==
    [][capacity > 0 =>
        /\ SentinelsApart(cache, nodes, capacity)
        /\ SentinelsApart(cache', nodes', capacity)
        /\ fault' = "none"
        /\ (IsGet(0) /\ last.op = "init") => last'.ret = Miss /\ ~last'.hit
        /\ (IsGet(0) /\ last.op = "put" /\ last.key = 0)
           => last'.hit /\ last'.ret = last.value
        /\ (last'.op = "put" /\ last'.evict)
           => Size(cache') = Size(cache) /\ Len(ListKeys(nodes')) = Len(ListKeys(nodes))]_vars

\* Key 0 holds the value -1, which is not the value of a dummy node, beside
\* another key; a get has returned it and its node is first in the list.
C26_Witness ==
    /\ alg.name = "calls" /\ fault = "none" /\ capacity > 0
    /\ last.op = "get" /\ last.key = 0 /\ last.hit /\ last.ret = Miss
    /\ Size(cache) >= 2
    /\ cache[0] = nodes[head].next /\ cache[0] \notin {head, tail}

\* C27 (capacity 0 in the source): LRUCache(0) is constructed without an
\* exception, and a put on it finds len(self.cache) == self.capacity with
\* an empty list, takes self.tail.prev, which is self.head, and raises in
\* the first statement of _remove, head.prev being None: no statement of
\* _remove or _insert_to_head has run, no Node is constructed, and dict and
\* list are as they were, empty.
C27_CapacityZero ==
    [][capacity = 0 =>
        /\ fault = "none"
        /\ cache = <<>> /\ nodes[tail].prev = head /\ nodes[head].prev = None
        /\ \A K \in Keys : IsGet(K) => fault' = "none" /\ last'.ret = Miss
        /\ \A K \in Keys : IsPut(K) =>
              /\ last'.evict
              /\ fault' = "AttributeError"
              /\ last'.work = 0 /\ last'.made = 0
              /\ cache' = cache /\ nodes' = nodes]_vars

\* The put on a cache of capacity 0 has raised.
C27_Witness ==
    /\ alg.name = "calls" /\ capacity = 0
    /\ last.op = "put" /\ last.evict /\ fault = "AttributeError"
    /\ cache = <<>> /\ nodes[head].next = tail

\* C28 (a hit is distinguishable from a miss): get(K) returns -1 if and
\* only if K is not in the dict, whatever values were put, -1 included.
C28_HitDistinguishable ==
    [][\A K \in Keys :
        (capacity > 0 /\ IsGet(K))
        => (last'.ret = Miss <=> K \notin Present(cache))]_vars

\* C29 (promotion moves only the touched key): a get that hits K, or a put
\* on K, leaves the other keys that stay in the cache in the order they
\* had, in the list and by last touch: the list without K after the call is
\* the list before it without K and without the key the put evicted.
C29_OthersKeepOrder ==
    [][\A K \in WideKeys :
        ((IsGet(K) /\ K \in Present(cache)) \/ IsPut(K))
        => LET evicted == Present(cache) \ Present(cache') IN
           /\ fault' = "none"
           /\ Without(ListKeys(nodes'), {K}) = Without(ListKeys(nodes), {K} \cup evicted)
           /\ Without(touched', {K}) = Without(touched, {K} \cup evicted)
           /\ ListKeys(nodes')[1] = K]_vars

\* A get has hit one of three keys, the call before it not being a call on
\* its key; the list holds it first and then the two others.
C29_Witness ==
    /\ alg.name = "wide" /\ fault = "none"
    /\ last.op = "get" /\ last.hit /\ last.prev = "other"
    /\ Len(ListKeys(nodes)) = 3
    /\ ListKeys(nodes)[1] = last.key
    /\ Len(last.mid.list) = 2 /\ last.key \notin SeqSet(last.mid.list)

\* C30 (frame of get and put): no call changes self.capacity; a get leaves
\* the keys of the dict and the value of each of them as they were; a
\* put(K, V) leaves the value of every key other than K that is in the dict
\* before and after it as it was.
C30_Frame ==
    [][/\ capacity' = capacity
       /\ \A K \in Keys :
            /\ IsGet(K) =>
                 /\ Present(cache') = Present(cache)
                 /\ \A J \in Present(cache) :
                       ValueOf(cache', nodes', J) = ValueOf(cache, nodes, J)
            /\ IsPut(K) =>
                 \A J \in (Present(cache) \cap Present(cache')) \ {K} :
                    ValueOf(cache', nodes', J) = ValueOf(cache, nodes, J)]_vars

\* A put has replaced the value of its key by a different one, and another
\* key of the cache holds a value that is not the one put.
C30_Witness ==
    /\ alg.name = "calls" /\ fault = "none"
    /\ last.op = "put" /\ last.hit /\ last.changed
    /\ \E J \in Present(cache) \ {last.key} : ValueOf(cache, nodes, J) # last.value

====
